---- MODULE Spec2Model ----
(***************************************************************************)
(* A model of the antisniper client (antisniper/api.py): one AntisniperAPI *)
(* object owning one aiohttp ClientSession, its generic verbs get/post,    *)
(* its endpoint methods, the Player and User namespaces, the status-code   *)
(* mapping of _handle_response and the close / async-with life cycle.      *)
(* Caller tasks invoke methods; a call runs up to the network boundary,    *)
(* is suspended while its request is in flight and is resumed by the       *)
(* server's answer or by a transport error.                                *)
(***************************************************************************)
EXTENDS Integers, Sequences, FiniteSets, TLC

VARIABLES
    key,             \* AntisniperAPI.key
    url,             \* AntisniperAPI.url
    sessionHeaders,  \* AntisniperAPI.session.headers (the session's default headers)
    closed,          \* AntisniperAPI.session.closed
    released,        \* how many times the session's connection pool was released
    closeCalls,      \* how many times AntisniperAPI.close was entered
    scope,           \* position of the `async with` block: "none", "body", "exited"
    exitedWith,      \* how the block was left: "none", "normal", "exception"
    exitFoundClosed, \* whether __aexit__ found the session closed by the body
    calls            \* per caller task: the method call it is executing

vars == <<key, url, sessionHeaders, closed, released, closeCalls, scope, exitedWith,
          exitFoundClosed, calls>>

-----------------------------------------------------------------------------
(* Bounds and program constants *)

\* longest players list the callers pass
MaxPlayers == 101
\* number of caller tasks running concurrently in SpecConc
MaxTasks == 2
\* how many times the application calls close() explicitly
MaxCloses == 2

\* `if len(players) > 100`
BulkLimit == 100

API_KEY == "your-api-key-here"
baseUrl == "https://api.antisniper.net/v2"

-----------------------------------------------------------------------------
(* Python values.  A value carries its type, so that truthiness (`if token:`) *)
(* and the query-parameter type check of the HTTP library are computed.       *)

PyStr(s) == [type |-> "str", repr |-> s]
PyInt(s) == [type |-> "int", repr |-> s]
PyBool(s) == [type |-> "bool", repr |-> s]
None == [type |-> "NoneType", repr |-> "None"]

\* Python truth value of a value
Truthy(v) ==
    CASE v.type = "NoneType" -> FALSE
      [] v.type = "str" -> v.repr # ""
      [] v.type = "int" -> v.repr # "0"
      [] v.type = "bool" -> v.repr = "True"

EmptyMap == <<>>

\* an optional dict argument: None or a dict
NoneDict == [some |-> FALSE, val |-> EmptyMap]
SomeDict(d) == [some |-> TRUE, val |-> d]

\* `d or {}`
OrEmpty(d) == IF d.some /\ DOMAIN d.val # {} THEN d.val ELSE EmptyMap

\* `{**a, **b}`: b layered on a, rightmost wins on key collision
Merge(a, b) == [k \in DOMAIN a \cup DOMAIN b |-> IF k \in DOMAIN b THEN b[k] ELSE a[k]]

\* a list of n player names
PlayerList(n) == [i \in 1..n |-> "MonsterGG"]

-----------------------------------------------------------------------------
(* Requests *)

NoRequest == [verb |-> "none", url |-> "", params |-> EmptyMap, json |-> EmptyMap,
              headers |-> EmptyMap]

\* what a method does before it suspends: it raises, or it hands a request to the session
Raises(e) == [raise |-> e, req |-> NoRequest]
Requests(r) == [raise |-> "None", req |-> r]

\* AntisniperAPI.get: session.get(self.url + endpoint, params=params or {})
get(endpoint, params) ==
    Requests([verb |-> "GET", url |-> url \o endpoint, params |-> OrEmpty(params),
              json |-> EmptyMap, headers |-> EmptyMap])

\* AntisniperAPI.post: headers = {**self.session.headers, **(headers or {})};
\* session.post(self.url + endpoint, json=body or {}, headers=headers)
post(endpoint, body, headers) ==
    Requests([verb |-> "POST", url |-> url \o endpoint, params |-> EmptyMap,
              json |-> OrEmpty(body),
              headers |-> Merge(sessionHeaders, OrEmpty(headers))])

convert(player, collection) ==
    get("/convert/" \o collection, SomeDict("player" :> PyStr(player)))

bulk_convert_ge(players, collection) ==
    IF Len(players) >= BulkLimit THEN Raises("ValueError")
    ELSE post("/convert/" \o collection, SomeDict("players" :> players), NoneDict)

bulk_convert(players, collection) ==
    IF Len(players) > BulkLimit THEN Raises("ValueError")
    ELSE post("/convert/" \o collection, SomeDict("players" :> players), NoneDict)

mojang_data(uuid) == get("/mojang", SomeDict("uuid" :> PyStr(uuid)))

name_owners(name) == get("/mojang/name", SomeDict("name" :> PyStr(name)))

online_check(players, reason) ==
    IF Len(players) > BulkLimit THEN Raises("ValueError")
    ELSE post("/other/online", SomeDict("players" :> players),
              SomeDict("reason" :> reason))

get_capes == get("/capes", NoneDict)

get_blacklist(player, token) ==
    get("/blacklist",
        SomeDict(IF Truthy(token)
                 THEN ("player" :> PyStr(player)) @@ ("token" :> token)
                 ELSE ("player" :> PyStr(player))))

\* Player (endpoint = "/player")
PlayerEndpoint == "/player"

get_ping(player, legacy, lookback) ==
    get(PlayerEndpoint \o "/ping",
        SomeDict(("player" :> PyStr(player)) @@ ("legacy" :> legacy)
                 @@ ("lookback" :> lookback)))

quickshop(player) == get(PlayerEndpoint \o "/quickshop", SomeDict("player" :> PyStr(player)))

chat_history(player, limit) ==
    get(PlayerEndpoint \o "/chat",
        SomeDict(IF Truthy(limit)
                 THEN ("player" :> PyStr(player)) @@ ("limit" :> limit)
                 ELSE ("player" :> PyStr(player))))

\* User (endpoint = "/user")
UserEndpoint == "/user"

user_get == get(UserEndpoint, NoneDict)
get_requests == get(UserEndpoint \o "/requests", NoneDict)
get_old_requests == get(UserEndpoint \o "/requests/old", NoneDict)
get_products == get(UserEndpoint \o "/products", NoneDict)
get_usage == get(UserEndpoint \o "/usage", NoneDict)
get_endpoint_usage == get(UserEndpoint \o "/usage/paths", NoneDict)

-----------------------------------------------------------------------------
(* The calls the callers make *)

\* one method call: the method and its arguments (fields a method does not take keep
\* their defaults)
NoCall == [method |-> "none", player |-> "Notch", collection |-> "mojang",
           players |-> <<>>, opt |-> None, legacy |-> PyBool("False"), reason |-> "",
           endpoint |-> "", params |-> NoneDict, body |-> NoneDict, headers |-> NoneDict]

Collections == {"mojang", "hypixel"}
PlayerCounts == {2} \cup (BulkLimit..MaxPlayers)
Tokens == {None, PyStr("abc")}
Limits == {None, PyInt("0"), PyInt("5")}
Lookbacks == {None, PyInt("30")}
Legacies == {PyBool("False"), PyBool("True")}
CallerHeaders == {NoneDict, SomeDict("reason" :> "Testing script usage"),
                  SomeDict("Apikey" :> "another-key")}
UserMethods == {"user.get", "user.get_requests", "user.get_old_requests",
                "user.get_products", "user.get_usage", "user.get_endpoint_usage"}

AllCalls ==
    {[NoCall EXCEPT !.method = "convert", !.collection = c] : c \in Collections}
    \cup {[NoCall EXCEPT !.method = "bulk_convert", !.players = PlayerList(n)] :
            n \in PlayerCounts}
    \cup {[NoCall EXCEPT !.method = "online_check", !.players = PlayerList(n),
                         !.reason = "Testing script usage"] : n \in PlayerCounts}
    \cup {[NoCall EXCEPT !.method = m] :
            m \in {"mojang_data", "name_owners", "get_capes", "player.quickshop"}
                  \cup UserMethods}
    \cup {[NoCall EXCEPT !.method = "get_blacklist", !.opt = v] : v \in Tokens}
    \cup {[NoCall EXCEPT !.method = "player.get_ping", !.opt = v, !.legacy = l] :
            v \in Lookbacks, l \in Legacies}
    \cup {[NoCall EXCEPT !.method = "player.chat_history", !.opt = v] : v \in Limits}
    \cup {[NoCall EXCEPT !.method = "get", !.endpoint = "/capes"]}
    \cup {[NoCall EXCEPT !.method = "post", !.endpoint = "/other/online", !.headers = h] :
            h \in CallerHeaders}

\* the calls the concurrent callers of SpecConc make
ConcCalls ==
    {d \in AllCalls :
        \/ d.method = "convert" /\ d.collection = "mojang"
        \/ d.method = "online_check" /\ Len(d.players) = 2
        \/ d.method = "bulk_convert" /\ Len(d.players) > BulkLimit}

\* the body of the called method, up to the request it hands to the session
Dispatch(d) ==
    CASE d.method = "convert" -> convert(d.player, d.collection)
      [] d.method = "bulk_convert" -> bulk_convert(d.players, d.collection)
      [] d.method = "mojang_data" -> mojang_data(d.player)
      [] d.method = "name_owners" -> name_owners(d.player)
      [] d.method = "online_check" -> online_check(d.players, d.reason)
      [] d.method = "get_capes" -> get_capes
      [] d.method = "get_blacklist" -> get_blacklist(d.player, d.opt)
      [] d.method = "player.get_ping" -> get_ping(d.player, d.legacy, d.opt)
      [] d.method = "player.quickshop" -> quickshop(d.player)
      [] d.method = "player.chat_history" -> chat_history(d.player, d.opt)
      [] d.method = "user.get" -> user_get
      [] d.method = "user.get_requests" -> get_requests
      [] d.method = "user.get_old_requests" -> get_old_requests
      [] d.method = "user.get_products" -> get_products
      [] d.method = "user.get_usage" -> get_usage
      [] d.method = "user.get_endpoint_usage" -> get_endpoint_usage
      [] d.method = "get" -> get(d.endpoint, d.params)
      [] d.method = "post" -> post(d.endpoint, d.body, d.headers)

-----------------------------------------------------------------------------
(* What the server or the transport answers *)

NoResponse == [error |-> "None", status |-> 0, ctype |-> "", text |-> ""]

JsonText == "{\"uuid\": \"069a79f4\"}"
HtmlText == "<html>Bad Gateway</html>"

Statuses == {200, 403, 422, 429, 404, 500}

Response(status, ctype, text) ==
    [error |-> "None", status |-> status, ctype |-> ctype, text |-> text]

\* an exception raised by the session instead of a response
TransportError(e) == [error |-> e, status |-> 0, ctype |-> "", text |-> ""]

\* connection refused or DNS failure; a socket timeout; the total timeout of the
\* request, which the session raises as asyncio.TimeoutError
TransportErrors == {"ClientConnectorError", "ServerTimeoutError", "TimeoutError"}

Responses ==
    {Response(200, "application/json", JsonText),
     Response(200, "application/json", HtmlText),
     Response(200, "text/html", HtmlText)}
    \cup {Response(s, "application/json", JsonText) : s \in Statuses \ {200}}
    \cup {TransportError(e) : e \in TransportErrors}

\* the exception classes deriving from aiohttp.ClientError
ClientErrors == {"ClientConnectorError", "ServerTimeoutError", "ContentTypeError"}

\* json.loads: the mapping a JSON text denotes, JSONDecodeError for any other text
json_loads(text) ==
    IF text = "{\"uuid\": \"069a79f4\"}"
    THEN [raise |-> "None", result |-> ("uuid" :> "069a79f4")]
    ELSE [raise |-> "JSONDecodeError", result |-> EmptyMap]

\* `await r.json()`: the content type is checked, then the text is parsed
json(r) ==
    IF r.ctype # "application/json" THEN [raise |-> "ContentTypeError", result |-> EmptyMap]
    ELSE json_loads(r.text)

handle_response_429(r) ==
    CASE r.status = 200 -> json(r)
      [] r.status = 403 -> [raise |-> "AntisniperForbiddenException", result |-> EmptyMap]
      [] r.status = 422 -> [raise |-> "AntisniperUnprocessableException", result |-> EmptyMap]
      [] OTHER -> [raise |-> "AntisniperUnknownException", result |-> EmptyMap]

\* AntisniperAPI._handle_response
handle_response(r) ==
    CASE r.status = 200 -> json(r)
      [] r.status = 403 -> [raise |-> "AntisniperForbiddenException", result |-> EmptyMap]
      [] r.status = 422 -> [raise |-> "AntisniperUnprocessableException", result |-> EmptyMap]
      [] r.status = 429 -> [raise |-> "AntisniperRatelimitException", result |-> EmptyMap]
      [] OTHER -> [raise |-> "AntisniperUnknownException", result |-> EmptyMap]

\* `except aiohttp.ClientError as e: raise AntisniperConnectionException from e`;
\* any other exception leaves get/post as it is
except_ClientError(e) ==
    IF e \in ClientErrors
    THEN [exc |-> "AntisniperConnectionException", cause |-> e]
    ELSE [exc |-> e, cause |-> "None"]

-----------------------------------------------------------------------------
(* The state of one method call *)

Idle == [pc |-> "idle", desc |-> NoCall, afterClose |-> FALSE, req |-> NoRequest,
         wire |-> EmptyMap, sent |-> 0, resp |-> NoResponse, outcome |-> "none",
         exc |-> "None", cause |-> "None", result |-> EmptyMap]

\* the call ends by raising x.exc (with __cause__ x.cause)
Raised(c, x) == [c EXCEPT !.pc = "done", !.outcome = "raise", !.exc = x.exc,
                          !.cause = x.cause]

\* the call ends by returning v
Returned(c, v) == [c EXCEPT !.pc = "done", !.outcome = "return", !.result = v]

\* the types the HTTP library accepts as the value of a query parameter
QueryTypes == {"str", "int", "float"}

session_request_reopen(c, req) ==
    IF \E k \in DOMAIN req.params : req.params[k].type \notin QueryTypes
    THEN Raised([c EXCEPT !.req = req], except_ClientError("TypeError"))
    ELSE [c EXCEPT !.pc = "inflight", !.req = req,
                   !.wire = Merge(sessionHeaders, req.headers), !.sent = @ + 1]

\* `async with self.session.get(...)` / `self.session.post(...)` inside the try of
\* get/post, up to the point where the call is suspended on the network: a closed
\* session raises RuntimeError, a query value of a type the library does not take
\* raises TypeError, otherwise the request goes out with the session's default
\* headers overlaid by the request's own
session_request(c, req) ==
    IF closed
    THEN Raised([c EXCEPT !.req = req], except_ClientError("RuntimeError"))
    ELSE IF \E k \in DOMAIN req.params : req.params[k].type \notin QueryTypes
    THEN Raised([c EXCEPT !.req = req], except_ClientError("TypeError"))
    ELSE [c EXCEPT !.pc = "inflight", !.req = req,
                   !.wire = Merge(sessionHeaders, req.headers), !.sent = @ + 1]

\* a call from its invocation to its first suspension (or to its end)
Begin(c, s) ==
    IF s.raise # "None" THEN Raised(c, [exc |-> s.raise, cause |-> "None"])
    ELSE session_request(c, s.req)

CompleteRetry(c, r) ==
    LET got == [c EXCEPT !.resp = r] IN
    IF r.error # "None" \/ r.status # 200
    THEN IF c.sent < 3 THEN [c EXCEPT !.sent = @ + 1]
         ELSE Raised(got, except_ClientError("AntisniperUnknownException"))
    ELSE LET h == handle_response(r) IN
         IF h.raise = "None" THEN Returned(got, h.result)
         ELSE Raised(got, except_ClientError(h.raise))

\* the rest of get/post once the session has answered the request with r:
\* `return await self._handle_response(r)` under `except aiohttp.ClientError`
Complete(c, r) ==
    LET got == [c EXCEPT !.resp = r] IN
    IF r.error # "None" THEN Raised(got, except_ClientError(r.error))
    ELSE LET h == handle_response(r) IN
         IF h.raise = "None" THEN Returned(got, h.result)
         ELSE Raised(got, except_ClientError(h.raise))

-----------------------------------------------------------------------------
(* Actions *)

Tasks == DOMAIN calls

InvokeCall(t, d) ==
    /\ calls[t].pc = "idle"
    /\ calls' = [calls EXCEPT ![t] =
                    Begin([Idle EXCEPT !.desc = d, !.afterClose = closeCalls > 0],
                          Dispatch(d))]

InvokeLeaky(t, d) ==
    /\ InvokeCall(t, d)
    /\ sessionHeaders' = Merge(sessionHeaders, Dispatch(d).req.headers)
    /\ UNCHANGED <<key, url, closed, released, closeCalls, scope, exitedWith,
                   exitFoundClosed>>

\* a caller task calls a method of the client; the method runs until it raises or
\* is suspended on its request
Invoke(t, d) ==
    /\ InvokeCall(t, d)
    /\ UNCHANGED <<key, url, sessionHeaders, closed, released, closeCalls, scope,
                   exitedWith, exitFoundClosed>>

\* the session answers an in-flight request and the call runs to its end
Respond(t, r) ==
    /\ calls[t].pc = "inflight"
    /\ calls' = [calls EXCEPT ![t] = Complete(@, r)]
    /\ UNCHANGED <<key, url, sessionHeaders, closed, released, closeCalls, scope,
                   exitedWith, exitFoundClosed>>

\* the caller task takes the result (or the exception) of its call and goes on
Resume(t) ==
    /\ calls[t].pc = "done"
    /\ calls' = [calls EXCEPT ![t] = Idle]
    /\ UNCHANGED <<key, url, sessionHeaders, closed, released, closeCalls, scope,
                   exitedWith, exitFoundClosed>>

close_forgets ==
    /\ closeCalls' = closeCalls + 1
    /\ UNCHANGED <<closed, released>>

\* AntisniperAPI.close: `await self.session.close()`; closing a session that is
\* already closed releases nothing
close ==
    /\ closeCalls' = closeCalls + 1
    /\ closed' = TRUE
    /\ released' = IF closed THEN released ELSE released + 1

\* the application calls close() itself
CallClose ==
    /\ closeCalls < MaxCloses
    /\ close
    /\ UNCHANGED <<key, url, sessionHeaders, scope, exitedWith, exitFoundClosed, calls>>

\* AntisniperAPI.__aenter__: `return self`
aenter ==
    /\ scope = "none"
    /\ scope' = "body"
    /\ UNCHANGED <<key, url, sessionHeaders, closed, released, closeCalls, exitedWith,
                   exitFoundClosed, calls>>

aexit_unless_raised(raised) ==
    /\ scope = "body"
    /\ IF raised THEN UNCHANGED <<closed, released, closeCalls>> ELSE close
    /\ scope' = "exited"
    /\ exitedWith' = IF raised THEN "exception" ELSE "normal"
    /\ exitFoundClosed' = closed
    /\ UNCHANGED <<key, url, sessionHeaders, calls>>

\* AntisniperAPI.__aexit__(*args): `await self.close()`, whether the body of the
\* block ended normally or raised
aexit(raised) ==
    /\ scope = "body"
    /\ close
    /\ scope' = "exited"
    /\ exitedWith' = IF raised THEN "exception" ELSE "normal"
    /\ exitFoundClosed' = closed
    /\ UNCHANGED <<key, url, sessionHeaders, calls>>

\* AntisniperAPI.__init__
Construct(tasks) ==
    /\ key = API_KEY
    /\ url = baseUrl
    /\ sessionHeaders = ("Apikey" :> key)
    /\ closed = FALSE
    /\ released = 0
    /\ closeCalls = 0
    /\ scope = "none"
    /\ exitedWith = "none"
    /\ exitFoundClosed = FALSE
    /\ calls = [t \in tasks |-> Idle]

\* one caller task exercising every method
Init == Construct({1})

Next ==
    \/ \E t \in Tasks, d \in AllCalls : Invoke(t, d)
    \/ \E t \in Tasks, r \in Responses : Respond(t, r)
    \/ \E t \in Tasks : Resume(t)
    \/ CallClose
    \/ aenter
    \/ \E raised \in BOOLEAN : aexit(raised)

Spec == Init /\ [][Next]_vars

\* several caller tasks sharing the client
InitConc == Construct(1..MaxTasks)

NextConc ==
    \/ \E t \in Tasks, d \in ConcCalls : Invoke(t, d)
    \/ \E t \in Tasks, r \in Responses : Respond(t, r)
    \/ \E t \in Tasks : Resume(t)
    \/ CallClose
    \/ aenter
    \/ \E raised \in BOOLEAN : aexit(raised)

SpecConc == InitConc /\ [][NextConc]_vars

-----------------------------------------------------------------------------
(* Properties *)

BulkMethods == {"bulk_convert", "online_check"}

\* C1: a bulk_convert or online_check call whose players list has more than 100
\* entries ends with ValueError and hands no request to the session; a list of
\* exactly 100 entries is not rejected and reaches the session.
C1_BulkCap ==
    \A t \in Tasks :
        LET c == calls[t] IN
        (c.pc # "idle" /\ c.desc.method \in BulkMethods) =>
            /\ Len(c.desc.players) > 100 =>
                 /\ c.pc = "done" /\ c.outcome = "raise" /\ c.exc = "ValueError"
                 /\ c.sent = 0 /\ c.req = NoRequest
            /\ Len(c.desc.players) = 100 =>
                 /\ c.exc # "ValueError"
                 /\ c.req.verb = "POST"

C1_Witness ==
    \E t \in Tasks :
        /\ calls[t].desc.method \in BulkMethods
        /\ Len(calls[t].desc.players) = 101
        /\ calls[t].pc = "done" /\ calls[t].exc = "ValueError"

Answered(c) == c.pc = "done" /\ c.resp # NoResponse /\ c.resp.error = "None"

\* the outcome the status table fixes for every status but 200
StatusFailure(c) ==
    /\ c.resp.status = 403 => c.outcome = "raise" /\ c.exc = "AntisniperForbiddenException"
    /\ c.resp.status = 422 =>
         c.outcome = "raise" /\ c.exc = "AntisniperUnprocessableException"
    /\ c.resp.status = 429 => c.outcome = "raise" /\ c.exc = "AntisniperRatelimitException"
    /\ c.resp.status \notin {200, 403, 422, 429} =>
         c.outcome = "raise" /\ c.exc = "AntisniperUnknownException"

\* C2 as stated: the status alone fixes the outcome of an answered call; 200 returns.
C2_StatusAlone ==
    \A t \in Tasks :
        LET c == calls[t] IN
        Answered(c) =>
            /\ c.resp.status = 200 => c.outcome = "return"
            /\ StatusFailure(c)

\* C2, amended: an answered call returns the parsed body unchanged when the status
\* is 200 and the body is JSON (JSON content type and a text that parses); it
\* raises Forbidden on 403, UnprocessableEntity on 422, RateLimited on 429 and
\* UnknownFailure on any other status but 200.
C2_StatusMapping ==
    \A t \in Tasks :
        LET c == calls[t] IN
        Answered(c) =>
            /\ (c.resp.status = 200 /\ c.resp.ctype = "application/json"
                  /\ c.resp.text = "{\"uuid\": \"069a79f4\"}") =>
                 c.outcome = "return" /\ c.result = ("uuid" :> "069a79f4")
            /\ StatusFailure(c)

C2_Witness ==
    \E t \in Tasks :
        /\ Answered(calls[t])
        /\ calls[t].resp.status = 200
        /\ calls[t].outcome = "return"
        /\ calls[t].result = ("uuid" :> "069a79f4")

\* C3: a call that met a transport failure raises AntisniperConnectionException
\* with the original error as its cause, and nothing else.
C3_TransportWrapped ==
    \A t \in Tasks :
        LET c == calls[t] IN
        (c.pc = "done" /\ c.resp.error # "None") =>
            /\ c.outcome = "raise"
            /\ c.exc = "AntisniperConnectionException"
            /\ c.cause = c.resp.error

\* C4: a method invoked after close() was called (explicitly or by __aexit__)
\* ends by raising, without a request going out and without a result.
C4_FailsAfterClose ==
    \A t \in Tasks :
        LET c == calls[t] IN
        c.afterClose => c.pc = "done" /\ c.outcome = "raise" /\ c.sent = 0

C4_Witness ==
    \E t \in Tasks :
        /\ calls[t].afterClose
        /\ calls[t].pc = "done"
        /\ calls[t].exc = "RuntimeError"
        /\ scope = "exited"

\* C5: the connection pool is never released twice, and once the block is left,
\* normally or by an exception, it has been released exactly once, also when
\* the body had already closed the client.
C5_ReleasedOnce ==
    /\ released <= 1
    /\ scope = "exited" => released = 1

C5_Witness ==
    /\ scope = "exited"
    /\ exitedWith = "exception"
    /\ exitFoundClosed
    /\ released = 1

\* C6: every request that goes out carries an Apikey header whose value is the
\* key given at construction.
C6_ApikeyOnEveryRequest ==
    \A t \in Tasks :
        LET c == calls[t] IN
        c.sent > 0 => "Apikey" \in DOMAIN c.wire /\ c.wire["Apikey"] = API_KEY

OptionalParam(m) ==
    CASE m = "get_blacklist" -> "token"
      [] m = "player.get_ping" -> "lookback"
      [] m = "player.chat_history" -> "limit"

\* C7: get_blacklist, player.get_ping and player.chat_history hand the session
\* query parameters that leave the optional value out when it is None and
\* hold it when it is supplied.
C7_OptionalOmitted ==
    \A t \in Tasks :
        LET c == calls[t] IN
        (c.pc # "idle"
            /\ c.desc.method \in {"get_blacklist", "player.get_ping", "player.chat_history"}) =>
            LET k == OptionalParam(c.desc.method) IN
            IF c.desc.opt = None THEN k \notin DOMAIN c.req.params
            ELSE k \in DOMAIN c.req.params /\ c.req.params[k] = c.desc.opt

Taxonomy == {"AntisniperConnectionException", "AntisniperForbiddenException",
             "AntisniperUnprocessableException", "AntisniperRatelimitException",
             "AntisniperUnknownException", "ValueError"}

\* C8: a finished call returned the parsed JSON of a 200 response or raised one
\* condition of the taxonomy.
C8_Taxonomy ==
    \A t \in Tasks :
        LET c == calls[t] IN
        c.pc = "done" =>
            \/ c.outcome = "return" /\ c.resp.status = 200
            \/ c.outcome = "raise" /\ c.exc \in Taxonomy

Failed(c) == c.resp.error # "None" \/ c.resp.status \notin {0, 200}

\* C9: whatever the other callers do, a call hands the session at most one
\* request, and a call whose request failed (transport error or a status other
\* than 200) has raised after that one request; only a 200 ends in a return.
C9_NoRetryNoSwallow ==
    \A t \in Tasks :
        LET c == calls[t] IN
        /\ c.sent <= 1
        /\ Failed(c) => c.pc = "done" /\ c.outcome = "raise" /\ c.sent = 1
        /\ c.outcome = "return" => c.resp.error = "None" /\ c.resp.status = 200

C9_Witness ==
    \E t, u \in Tasks :
        /\ t # u
        /\ calls[t].pc = "done" /\ Failed(calls[t]) /\ calls[t].outcome = "raise"
        /\ calls[u].pc = "inflight"

\* C10: no step of any call, under any interleaving, changes the key, the base URL
\* or the session's default headers, and a GET goes out with exactly the default
\* headers, whatever headers earlier or concurrent posts were given.
C10_SharedStateUnchanged ==
    /\ [](\A t \in Tasks :
            (calls[t].sent > 0 /\ calls[t].req.verb = "GET") =>
                calls[t].wire = ("Apikey" :> API_KEY))
    /\ [][key' = key /\ url' = url /\ sessionHeaders' = sessionHeaders]_vars

C10_Witness ==
    \E t, u \in Tasks :
        /\ calls[t].desc.method = "online_check"
        /\ calls[t].pc = "done"
        /\ "reason" \in DOMAIN calls[t].wire
        /\ calls[u].desc.method = "convert"
        /\ calls[u].pc = "inflight"
        /\ "reason" \notin DOMAIN calls[u].wire
        /\ sessionHeaders = ("Apikey" :> API_KEY)

====
